---- MODULE Spec2Model ----
(***************************************************************************)
(* Model of src/src/roots/roots.cpp: the four root finders bisection,      *)
(* regula_falsi, newton_raphson and secant.                                *)
(*                                                                         *)
(* One behaviour of the model is one call.  Init chooses the callee, the   *)
(* caller's function f (with its derivative g), the arguments a, b, c and  *)
(* whether the root pointer is null; each action is the function's entry   *)
(* code, one pass through its for loop, or the code after the loop.        *)
(* (The repository's second source file is an earlier draft of the same    *)
(* four functions; the model follows roots.cpp.)                           *)
(*                                                                         *)
(* Numbers.  The code computes in double.  The model computes in a small   *)
(* binary floating-point format with the same shape: integers of magnitude *)
(* below 256 are exact, above that the spacing doubles with every binade   *)
(* (2 up to 512, 4 up to 1024, 8 up to 2048, ...), and every arithmetic    *)
(* result is rounded to the nearest representable value, ties to even.     *)
(* The smallest spacing is 1.  TOLERANCE (1e-6 in the code) and the        *)
(* literal 1e-12 are scaled to 6 and 3 of these units.  As in double, the  *)
(* spacing is below the tolerance for small magnitudes and above it for    *)
(* large ones (here from 1024 on).  The format has no infinities and no    *)
(* NaN, and a product of nonzero values is never rounded to zero.          *)
(***************************************************************************)
EXTENDS Integers, Sequences, FiniteSets, TLC

\* roots.cpp:6 is 1000000, far above the at most ~2100 halvings a bracket of
\* doubles can undergo before its endpoints are adjacent.  The model keeps that
\* relation: its widest bracket (1072 units) stops shrinking before the cap.
MAX_ITERATIONS == 12

\* roots.cpp:5, 1e-6, in model units.
TOLERANCE == 6

\* The literal 1e-12 of roots.cpp:71, 117 and 154, in model units.
STALL_EPS == 3

-----------------------------------------------------------------------------
(* double arithmetic *)

Abs(x) == IF x < 0 THEN -x ELSE x

Sign(x) == IF x < 0 THEN -1 ELSE IF x > 0 THEN 1 ELSE 0

\* Spacing of the representable values around magnitude m >= 0.
RECURSIVE Ulp(_)
Ulp(m) == IF m < 256 THEN 1 ELSE 2 * Ulp(m \div 2)

\* n / m (n >= 0, m > 0) to the nearest integer, ties to even.
RoundHalfEven(n, m) ==
    LET q == n \div m
        r == n % m
    IN  IF 2 * r < m THEN q
        ELSE IF 2 * r > m THEN q + 1
        ELSE IF q % 2 = 0 THEN q ELSE q + 1

\* The representable value nearest to the rational n / d.  Every division of
\* the code is guarded against a small divisor; d = 0 gets a value only so
\* that the operator is total.
FlQ(n, d) ==
    IF d = 0 THEN 0
    ELSE LET N == Abs(n)
             D == Abs(d)
             U == Ulp(N \div D)
         IN  Sign(n) * Sign(d) * U * RoundHalfEven(N, D * U)

Fl(x) == FlQ(x, 1)

Add(x, y) == Fl(x + y)

Sub(x, y) == Fl(x - y)

Mul(x, y) == Fl(x * y)

Div(x, y) == FlQ(x, y)

\* 0.5 * (x + y)
Mid(x, y) == FlQ(Add(x, y), 2)

-----------------------------------------------------------------------------
(* the caller's side: f, g and the arguments *)

Methods == {"bisection", "regula_falsi", "newton_raphson", "secant"}

Bracketing == {"bisection", "regula_falsi"}

Functions == {"line", "steep", "parab", "lift", "cube", "step", "tiny", "cyc", "far"}

\* f(x)
F(fn, x) ==
    CASE fn = "line"  -> Fl(x - 3)
      [] fn = "steep" -> Fl(16 * x - 8)
      [] fn = "parab" -> Fl(x * x - 64)
      [] fn = "lift"  -> Fl(x * x + 64)
      [] fn = "cube"  -> Fl(x * x * x)
      [] fn = "step"  -> IF x < 1 THEN -10 ELSE 10
      [] fn = "tiny"  -> IF x < 1 THEN -1 ELSE 1
      [] fn = "cyc"   -> IF x = 20 THEN 30 ELSE IF x = -10 THEN 15 ELSE 10
      [] fn = "far"   -> IF x < 1028 THEN -10 ELSE 10

\* g(x), the derivative handed to newton_raphson
G(fn, x) ==
    CASE fn = "line"  -> 1
      [] fn = "steep" -> 16
      [] fn = "parab" -> Fl(2 * x)
      [] fn = "lift"  -> Fl(2 * x)
      [] fn = "cube"  -> Fl(3 * x * x)
      [] OTHER        -> 0

\* Arguments a and b, representable values.  "far" changes sign between two
\* neighbours of spacing 8, above the tolerance.
Points(fn) == IF fn = "far" THEN {-32, 1024, 1032, 1040} ELSE {-32, -10, 0, 5, 32}

\* Argument c of the open methods.
Guesses(fn) == IF fn = "far" THEN {1024} ELSE {-10, 0, 8, 40}

\* What the caller's variable holds before the call.
RootBefore == {-77}

\* Writing through a null pointer is undefined: the build may trap, or the
\* store may be dropped and the call go on to return r.
NullStore(r) == {"crash", r}

-----------------------------------------------------------------------------
VARIABLES
    method,     \* the function called
    fn,         \* the caller's f (and g)
    arg_a,      \* argument a as passed
    arg_b,      \* argument b as passed
    arg_c,      \* argument c as passed (the initial guess of the open methods)
    rootNull,   \* whether the root argument is a null pointer
    root_old,   \* *root before the call
    root,       \* *root
    a, b, c,    \* the parameters a, b, c, which the code assigns to
    fa, fb, fc, \* bisection, regula_falsi: fa, fb, fc; newton_raphson: fc
    gc,         \* newton_raphson: gc
    c_next,     \* newton_raphson: c_next
    x_prev, x_curr, x_new, f_new,   \* secant's locals
    x_raw,      \* secant: x_new as line 157 computes it, before lines 159-161
    i,          \* the loop counter
    pc,         \* "entry", "loop" or "returned"
    ret,        \* "none" until the call returns; then "true", "false" or "crash"
    why,        \* the return statement taken
    nevals,     \* calls of f so far
    divs,       \* divisions executed so far
    den         \* the divisor of the latest division

inputs == <<method, fn, arg_a, arg_b, arg_c, rootNull, root_old>>

brack == <<a, b, fa, fb>>

sec == <<x_prev, x_curr, x_new, f_new, x_raw>>

vars == <<method, fn, arg_a, arg_b, arg_c, rootNull, root_old, root, a, b, c, fa, fb,
          fc, gc, c_next, x_prev, x_curr, x_new, f_new, x_raw, i, pc, ret, why, nevals,
          divs, den>>

Init ==
    /\ method \in Methods
    /\ fn \in Functions
    /\ arg_a \in Points(fn)
    /\ arg_b \in Points(fn)
    /\ a = arg_a
    /\ b = arg_b
    /\ arg_c \in (IF method \in Bracketing THEN {0} ELSE Guesses(fn))
    /\ c = arg_c
    /\ rootNull \in BOOLEAN
    /\ root_old \in RootBefore
    /\ root = root_old
    /\ fa = 0 /\ fb = 0 /\ fc = 0 /\ gc = 0 /\ c_next = 0
    /\ x_prev = 0 /\ x_curr = 0 /\ x_new = 0 /\ f_new = 0 /\ x_raw = 0
    /\ i = 0
    /\ pc = (IF method = "newton_raphson" THEN "loop" ELSE "entry")
    /\ ret = "none"
    /\ why = "none"
    /\ nevals = 0
    /\ divs = 0
    /\ den = 0

\* return r, without a store to *root
Return(r, w) ==
    /\ pc' = "returned"
    /\ why' = w
    /\ ret' = r
    /\ root' = root

\* *root = v; return r;
StoreReturn(r, w, v) ==
    /\ pc' = "returned"
    /\ why' = w
    /\ IF rootNull
         THEN ret' \in NullStore(r) /\ root' = root
         ELSE ret' = r /\ root' = v

-----------------------------------------------------------------------------
(* bisection, roots.cpp:12-53 *)

\* Mutant: the sign test inverted.
BisNoSignChange_Inverted(x, y) == Mul(x, y) < 0

\* if (fa * fb > 0) return false;
BisNoSignChange(x, y) == Mul(x, y) > 0

\* std::fabs(fc) < TOLERANCE || std::fabs(b - a) < TOLERANCE
BisConverged(fcv, av, bv) == Abs(fcv) < TOLERANCE \/ Abs(Sub(bv, av)) < TOLERANCE

\* Mutant: an endpoint stored in place of the midpoint.
BisBestEffort_Endpoint(av, bv) == bv

\* *root = 0.5 * (a + b), after the loop
BisBestEffort(av, bv) == Mid(av, bv)

BisectionEntry ==
    /\ pc = "entry"
    /\ method = "bisection"
    /\ IF rootNull
         THEN /\ Return("false", "null_root")
              /\ UNCHANGED <<fa, fb, nevals>>
         ELSE LET fa1 == F(fn, a)
                  fb1 == F(fn, b)
              IN  /\ fa' = fa1
                  /\ fb' = fb1
                  /\ nevals' = nevals + 2
                  /\ IF fa1 = 0 THEN StoreReturn("true", "root_a", a)
                     ELSE IF fb1 = 0 THEN StoreReturn("true", "root_b", b)
                     ELSE IF BisNoSignChange(fa1, fb1) THEN Return("false", "no_sign_change")
                     ELSE pc' = "loop" /\ UNCHANGED <<ret, why, root>>
    /\ UNCHANGED <<inputs, a, b, c, fc, gc, c_next, sec, i, divs, den>>

BisectionIter ==
    /\ pc = "loop"
    /\ method = "bisection"
    /\ i < MAX_ITERATIONS
    /\ LET c1 == Mid(a, b)
           fc1 == F(fn, c1)
       IN  /\ c' = c1
           /\ fc' = fc1
           /\ nevals' = nevals + 1
           /\ IF BisConverged(fc1, a, b)
                THEN /\ StoreReturn("true", "converged", c1)
                     /\ UNCHANGED <<brack, i>>
                ELSE /\ IF Mul(fa, fc1) < 0
                          THEN b' = c1 /\ fb' = fc1 /\ UNCHANGED <<a, fa>>
                          ELSE a' = c1 /\ fa' = fc1 /\ UNCHANGED <<b, fb>>
                     /\ i' = i + 1
                     /\ UNCHANGED <<pc, ret, why, root>>
    /\ UNCHANGED <<inputs, gc, c_next, sec, divs, den>>

\* Mutant: exhaustion fails, as it does in regula_falsi.
BisectionExhaust_Fails ==
    /\ pc = "loop"
    /\ method = "bisection"
    /\ i = MAX_ITERATIONS
    /\ Return("false", "exhausted")
    /\ UNCHANGED <<inputs, brack, c, fc, gc, c_next, sec, i, nevals, divs, den>>

BisectionExhaust ==
    /\ pc = "loop"
    /\ method = "bisection"
    /\ i = MAX_ITERATIONS
    /\ StoreReturn("true", "exhausted", BisBestEffort(a, b))
    /\ UNCHANGED <<inputs, brack, c, fc, gc, c_next, sec, i, nevals, divs, den>>

-----------------------------------------------------------------------------
(* regula_falsi, roots.cpp:59-99 *)

\* if (fa * fb > 0) return false;
RfNoSignChange(x, y) == Mul(x, y) > 0

\* Mutant: the stall test compares for exact equality.
RfStall_Exact(fav, fbv) == fbv = fav

\* if (fabs(fb - fa) < 1e-12) return false;
RfStall(fav, fbv) == Abs(Sub(fbv, fav)) < STALL_EPS

\* c = a - (fa * (b - a)) / (fb - fa);
RfInterp(av, bv, fav, fbv) == Sub(av, Div(Mul(fav, Sub(bv, av)), Sub(fbv, fav)))

\* if (c <= a || c >= b) c = 0.5 * (a + b);
RfFallback(cv, av, bv) == IF cv <= av \/ cv >= bv THEN Mid(av, bv) ELSE cv

\* fabs(fc) < TOLERANCE || fabs(b - a) < TOLERANCE
RfConverged(fcv, av, bv) == Abs(fcv) < TOLERANCE \/ Abs(Sub(bv, av)) < TOLERANCE

RegulaFalsiEntry ==
    /\ pc = "entry"
    /\ method = "regula_falsi"
    /\ LET fa1 == F(fn, a)
           fb1 == F(fn, b)
       IN  /\ fa' = fa1
           /\ fb' = fb1
           /\ nevals' = nevals + 2
           /\ IF RfNoSignChange(fa1, fb1)
                THEN Return("false", "no_sign_change") /\ c' = c
                ELSE c' = a /\ pc' = "loop" /\ UNCHANGED <<ret, why, root>>
    /\ UNCHANGED <<inputs, a, b, fc, gc, c_next, sec, i, divs, den>>

RegulaFalsiIter ==
    /\ pc = "loop"
    /\ method = "regula_falsi"
    /\ i < MAX_ITERATIONS
    /\ IF RfStall(fa, fb)
         THEN /\ Return("false", "stall")
              /\ UNCHANGED <<brack, c, fc, i, nevals, divs, den>>
         ELSE LET c1 == RfFallback(RfInterp(a, b, fa, fb), a, b)
                  fc1 == F(fn, c1)
              IN  /\ den' = Sub(fb, fa)
                  /\ divs' = divs + 1
                  /\ c' = c1
                  /\ fc' = fc1
                  /\ nevals' = nevals + 1
                  /\ IF RfConverged(fc1, a, b)
                       THEN /\ StoreReturn("true", "converged", c1)
                            /\ UNCHANGED <<brack, i>>
                       ELSE /\ IF Mul(fc1, fa) < 0
                                 THEN b' = c1 /\ fb' = fc1 /\ UNCHANGED <<a, fa>>
                                 ELSE a' = c1 /\ fa' = fc1 /\ UNCHANGED <<b, fb>>
                            /\ i' = i + 1
                            /\ UNCHANGED <<pc, ret, why, root>>
    /\ UNCHANGED <<inputs, gc, c_next, sec>>

RegulaFalsiExhaust ==
    /\ pc = "loop"
    /\ method = "regula_falsi"
    /\ i = MAX_ITERATIONS
    /\ Return("false", "exhausted")
    /\ UNCHANGED <<inputs, brack, c, fc, gc, c_next, sec, i, nevals, divs, den>>

-----------------------------------------------------------------------------
(* newton_raphson, roots.cpp:110-133 *)

\* Mutant: the derivative test compares with zero exactly.
NrZeroDerivative_Exact(gcv) == gcv = 0

\* if (fabs(gc) < 1e-12) return false;
NrZeroDerivative(gcv) == Abs(gcv) < STALL_EPS

\* c_next = c - fc / gc;
NrStep(cv, fcv, gcv) == Sub(cv, Div(fcv, gcv))

\* Mutant: the convergence test first, the bounds test second.
NrOutcome_ConvergenceFirst(av, bv, cv, cn) ==
    IF Abs(Sub(cn, cv)) < TOLERANCE THEN "converged"
    ELSE IF cn < av \/ cn > bv THEN "out_of_bounds"
    ELSE "continue"

\* The two tests on c_next, in the code's order: bounds, then convergence.
NrOutcome(av, bv, cv, cn) ==
    IF cn < av \/ cn > bv THEN "out_of_bounds"
    ELSE IF Abs(Sub(cn, cv)) < TOLERANCE THEN "converged"
    ELSE "continue"

NewtonIter ==
    /\ pc = "loop"
    /\ method = "newton_raphson"
    /\ i < MAX_ITERATIONS
    /\ LET fc1 == F(fn, c)
           gc1 == G(fn, c)
       IN  /\ fc' = fc1
           /\ gc' = gc1
           /\ nevals' = nevals + 1
           /\ IF NrZeroDerivative(gc1)
                THEN /\ Return("false", "zero_derivative")
                     /\ UNCHANGED <<c, c_next, i, divs, den>>
                ELSE LET cn == NrStep(c, fc1, gc1)
                         out == NrOutcome(a, b, c, cn)
                     IN  /\ c_next' = cn
                         /\ den' = gc1
                         /\ divs' = divs + 1
                         /\ IF out = "out_of_bounds"
                              THEN Return("false", "out_of_bounds") /\ UNCHANGED <<c, i>>
                            ELSE IF out = "converged"
                              THEN StoreReturn("true", "converged", cn) /\ UNCHANGED <<c, i>>
                            ELSE /\ c' = cn
                                 /\ i' = i + 1
                                 /\ UNCHANGED <<pc, ret, why, root>>
    /\ UNCHANGED <<inputs, brack, sec>>

\* Mutant: exhaustion stores the last iterate and returns true.
NewtonExhaust_BestEffort ==
    /\ pc = "loop"
    /\ method = "newton_raphson"
    /\ i = MAX_ITERATIONS
    /\ StoreReturn("true", "exhausted", c)
    /\ UNCHANGED <<inputs, brack, c, fc, gc, c_next, sec, i, nevals, divs, den>>

NewtonExhaust ==
    /\ pc = "loop"
    /\ method = "newton_raphson"
    /\ i = MAX_ITERATIONS
    /\ Return("false", "exhausted")
    /\ UNCHANGED <<inputs, brack, c, fc, gc, c_next, sec, i, nevals, divs, den>>

-----------------------------------------------------------------------------
(* secant, roots.cpp:144-177 *)

\* if (std::fabs(f_curr - f_prev) < 1e-12) return false;
SecStall(fp, fcur) == Abs(Sub(fcur, fp)) < STALL_EPS

\* x_new = x_curr - (f_curr * (x_curr - x_prev)) / (f_curr - f_prev);
SecStep(xp, xc, fp, fcur) == Sub(xc, Div(Mul(fcur, Sub(xc, xp)), Sub(fcur, fp)))

\* Mutant: only the lower bound is tested.
SecClamp_LowerOnly(xn, av, bv) == IF xn < av THEN Mid(av, bv) ELSE xn

\* if (x_new < a || x_new > b) x_new = 0.5 * (a + b);
SecClamp(xn, av, bv) == IF xn < av \/ xn > bv THEN Mid(av, bv) ELSE xn

\* std::fabs(x_new - x_curr) < TOLERANCE || std::fabs(f_new) < TOLERANCE
SecConverged(xn, xc, fnew) == Abs(Sub(xn, xc)) < TOLERANCE \/ Abs(fnew) < TOLERANCE

SecantEntry ==
    /\ pc = "entry"
    /\ method = "secant"
    /\ x_prev' = a
    /\ x_curr' = c
    /\ pc' = "loop"
    /\ UNCHANGED <<inputs, root, brack, c, fc, gc, c_next, x_new, f_new, x_raw, i, ret,
                   why, nevals, divs, den>>

SecantIter ==
    /\ pc = "loop"
    /\ method = "secant"
    /\ i < MAX_ITERATIONS
    /\ LET f_prev == F(fn, x_prev)
           f_curr == F(fn, x_curr)
       IN  IF SecStall(f_prev, f_curr)
             THEN /\ Return("false", "stall")
                  /\ nevals' = nevals + 2
                  /\ UNCHANGED <<sec, i, divs, den>>
             ELSE LET raw == SecStep(x_prev, x_curr, f_prev, f_curr)
                      xn == SecClamp(raw, a, b)
                      fnew == F(fn, xn)
                  IN  /\ den' = Sub(f_curr, f_prev)
                      /\ x_raw' = raw
                      /\ divs' = divs + 1
                      /\ x_new' = xn
                      /\ f_new' = fnew
                      /\ nevals' = nevals + 3
                      /\ IF SecConverged(xn, x_curr, fnew)
                           THEN /\ StoreReturn("true", "converged", xn)
                                /\ UNCHANGED <<x_prev, x_curr, i>>
                           ELSE /\ x_prev' = x_curr
                                /\ x_curr' = xn
                                /\ i' = i + 1
                                /\ UNCHANGED <<pc, ret, why, root>>
    /\ UNCHANGED <<inputs, brack, c, fc, gc, c_next>>

SecantExhaust ==
    /\ pc = "loop"
    /\ method = "secant"
    /\ i = MAX_ITERATIONS
    /\ StoreReturn("false", "exhausted", x_curr)
    /\ UNCHANGED <<inputs, brack, c, fc, gc, c_next, sec, i, nevals, divs, den>>

-----------------------------------------------------------------------------
Next ==
    \/ BisectionEntry
    \/ BisectionIter
    \/ BisectionExhaust
    \/ RegulaFalsiEntry
    \/ RegulaFalsiIter
    \/ RegulaFalsiExhaust
    \/ NewtonIter
    \/ NewtonExhaust
    \/ SecantEntry
    \/ SecantIter
    \/ SecantExhaust

Spec == Init /\ [][Next]_vars

-----------------------------------------------------------------------------
(* Properties *)

Returned == pc = "returned"

\* f(a) * f(b) < 0 for the arguments as passed
StrictBracket == Mul(F(fn, arg_a), F(fn, arg_b)) < 0

\* f(a) and f(b) both nonzero and of the same sign
SameSign == Sign(F(fn, arg_a)) * Sign(F(fn, arg_b)) = 1

\* The tolerance test of the method called holds of what the call returned.
\* (In the open methods the returning iteration is the one that made the
\* latest division: divs = i + 1.)
ToleranceMet ==
    CASE method \in Bracketing ->
            Abs(F(fn, root)) < TOLERANCE \/ Abs(Sub(b, a)) < TOLERANCE
      [] method = "newton_raphson" ->
            divs = i + 1 /\ root = c_next /\ Abs(Sub(c_next, c)) < TOLERANCE
      [] method = "secant" ->
            /\ divs = i + 1 /\ root = x_new
            /\ Abs(Sub(x_new, x_curr)) < TOLERANCE \/ Abs(f_new) < TOLERANCE

\* C1 (as claimed): in bisection and regula_falsi, after every loop iteration
\* that does not return, the endpoints' cached values satisfy fa * fb <= 0.
C1_BracketInvariant ==
    (method \in Bracketing /\ arg_a < arg_b /\ ~rootNull /\ pc = "loop" /\ i >= 1)
        => Mul(fa, fb) <= 0

\* C1 for bisection alone, which returns an endpoint that is an exact root
\* before the loop.
C1_BisectionBracket ==
    (method = "bisection" /\ pc = "loop") => Mul(fa, fb) < 0

\* C2 (as claimed): with f(a) * f(b) < 0, bisection and regula_falsi return
\* success and the root x* they store satisfies |f(x*)| < TOLERANCE.
C2_Original ==
    (method \in Bracketing /\ ~rootNull /\ StrictBracket /\ Returned)
        => (ret = "true" /\ Abs(F(fn, root)) < TOLERANCE)

\* C2 (amended): with a non-null root and f(a) * f(b) < 0, bisection returns
\* success within MAX_ITERATIONS iterations, and regula_falsi returns success or
\* fails by the stall check or by exhausting the cap; on success the stored x*
\* satisfies |f(x*)| < TOLERANCE, or the bracket of that iteration satisfies
\* |b - a| < TOLERANCE, or (bisection only) the cap was exhausted.
C2_Amended ==
    (method \in Bracketing /\ ~rootNull /\ StrictBracket /\ Returned) =>
        /\ i <= MAX_ITERATIONS
        /\ ret \in {"true", "false"}
        /\ method = "bisection" => ret = "true"
        /\ ret = "true" =>
              \/ Abs(F(fn, root)) < TOLERANCE
              \/ Abs(Sub(b, a)) < TOLERANCE
              \/ method = "bisection" /\ i = MAX_ITERATIONS
        /\ ret = "false" =>
              /\ root = root_old
              /\ Abs(Sub(fb, fa)) < STALL_EPS \/ i = MAX_ITERATIONS

\* C2 witness: a strict bracket on which bisection returned, before the cap, a
\* point whose residual is not below the tolerance.
C2_Witness ==
    /\ method = "bisection" /\ ~rootNull /\ StrictBracket /\ Returned
    /\ ret = "true" /\ i < MAX_ITERATIONS
    /\ Abs(F(fn, root)) >= TOLERANCE

C4_BestEffort ==
    (method = "bisection" /\ Returned /\ i = MAX_ITERATIONS) =>
        /\ ret = "true"
        /\ root = c
        /\ nevals = 2 + MAX_ITERATIONS

\* C4 witness: bisection has exhausted the cap and the tolerance test is not met.
C4_Witness ==
    /\ method = "bisection" /\ Returned /\ i = MAX_ITERATIONS /\ ret = "true"
    /\ Abs(F(fn, root)) >= TOLERANCE /\ Abs(Sub(b, a)) >= TOLERANCE

\* C5 (as claimed): every call ends within MAX_ITERATIONS iterations, either
\* converged (tolerance test met, success returned) or failed (false returned).
C5_Original ==
    /\ i <= MAX_ITERATIONS
    /\ (Returned /\ ~rootNull) =>
          \/ ret = "false"
          \/ ret = "true" /\ ToleranceMet

\* The outcomes of a call with a non-null root.
C5_Outcomes ==
    /\ i <= MAX_ITERATIONS
    /\ (Returned /\ ~rootNull) =>
          \/ ret = "false"
          \/ ret = "true" /\ ToleranceMet
          \/ method = "bisection" /\ ret = "true" /\ i = MAX_ITERATIONS

\* Every step taken inside the loop returns or counts one more iteration.
C5_Progress == (pc = "loop") => (pc' = "returned" \/ (pc' = "loop" /\ i' = i + 1))

\* C5 (amended): every call with a non-null root ends within MAX_ITERATIONS
\* iterations, and it ends converged, failed, or, in bisection only, with
\* success on exhaustion of the cap without the tolerance test being met.
C5_Amended == []C5_Outcomes /\ [][C5_Progress]_vars

\* C5 witness: bisection returned success on exhaustion, tolerance not met.
C5_Witness ==
    /\ method = "bisection" /\ Returned /\ ~rootNull /\ ret = "true"
    /\ i = MAX_ITERATIONS /\ ~ToleranceMet

\* C6: in newton_raphson a step c_next outside [a, b] makes the call fail, and
\* the bounds test comes before the convergence test, so every root stored on
\* success lies inside [a, b], whatever the initial guess.
C6_NewtonInBounds ==
    (method = "newton_raphson" /\ divs > 0) =>
        /\ (c_next < arg_a \/ c_next > arg_b) =>
              (Returned /\ ret = "false" /\ root = root_old)
        /\ (Returned /\ ret = "true" /\ ~rootNull) =>
              (arg_a <= root /\ root <= arg_b /\ root = c_next)

\* C6 witness: newton_raphson succeeded from an initial guess outside [a, b].
C6_Witness ==
    /\ method = "newton_raphson" /\ Returned /\ ret = "true" /\ ~rootNull
    /\ (arg_c < arg_a \/ arg_c > arg_b)
    /\ arg_a <= root /\ root <= arg_b

\* C7: in newton_raphson, an iterate x (the initial guess or a later one) with
\* |g(x)| < 1e-12 makes the call return false at that iteration, with no step
\* computed and no root stored; f = x^3, g = 3x^2, x0 = 0 fails at the first
\* iteration.
C7_ZeroDerivative ==
    (method = "newton_raphson" /\ nevals > 0) =>
        /\ Abs(gc) < STALL_EPS =>
              /\ Returned /\ ret = "false"
              /\ gc = G(fn, c)
              /\ root = root_old
              /\ divs = i
              /\ nevals = i + 1
        /\ (fn = "cube" /\ arg_c = 0) => (Returned /\ ret = "false" /\ i = 0 /\ divs = 0)

\* C7 witness: the derivative vanished at an iterate later than the initial guess.
C7_Witness ==
    /\ method = "newton_raphson" /\ Returned /\ ret = "false"
    /\ Abs(G(fn, c)) < STALL_EPS /\ i >= 1 /\ c # arg_c

\* C8, the state part: with a <= b, every x_new at which secant evaluates f,
\* every value shifted into x_curr and every root stored on success lies in
\* [a, b].
C8_Inside ==
    (method = "secant" /\ arg_a <= arg_b) =>
        /\ divs > 0 => (arg_a <= x_new /\ x_new <= arg_b)
        /\ i >= 1 => (arg_a <= x_curr /\ x_curr <= arg_b)
        /\ (Returned /\ ret = "true" /\ ~rootNull) => (arg_a <= root /\ root <= arg_b)

\* C8, the step part: an iteration whose secant estimate falls outside [a, b]
\* does not return false; it goes on with the midpoint 0.5 * (a + b).
C8_NoFailure ==
    (/\ method = "secant" /\ pc = "loop" /\ i < MAX_ITERATIONS
     /\ divs' = divs + 1
     /\ (x_raw' < arg_a \/ x_raw' > arg_b))
        => (ret' # "false" /\ x_new' = Mid(arg_a, arg_b) /\ f_new' = F(fn, x_new'))

C9_Divisor ==
    (method \in {"regula_falsi", "secant"} /\ divs > 0) => Abs(den) >= STALL_EPS

\* C9, the step part: an iteration that starts with |fb - fa| < 1e-12
\* (regula_falsi) or |f(x_curr) - f(x_prev)| < 1e-12 (secant) returns false
\* and divides nothing.
C9_Fails ==
    (/\ pc = "loop" /\ i < MAX_ITERATIONS
     /\ \/ method = "regula_falsi" /\ Abs(Sub(fb, fa)) < STALL_EPS
        \/ method = "secant" /\ Abs(Sub(F(fn, x_curr), F(fn, x_prev))) < STALL_EPS)
        => (pc' = "returned" /\ ret' = "false" /\ divs' = divs /\ root' = root)

\* C9: regula_falsi and secant return failure at the start of an iteration
\* whose divisor is below 1e-12 in magnitude, before the division.
C9_StallDetection == []C9_Divisor /\ [][C9_Fails]_vars

\* C9 witness: regula_falsi stopped on a strict bracket whose values differ by
\* less than 1e-12.
C9_Witness ==
    /\ method = "regula_falsi" /\ Returned /\ ret = "false"
    /\ Mul(fa, fb) < 0 /\ Abs(Sub(fb, fa)) < STALL_EPS /\ i < MAX_ITERATIONS

\* C10 (as claimed): whenever a call returns false, *root holds the value it
\* held before the call.
C10_FailureLeavesRoot ==
    (Returned /\ ret = "false") => root = root_old

\* C10 for the three functions other than secant.
C10_OthersLeaveRoot ==
    (method # "secant" /\ Returned /\ ret = "false") => root = root_old

====
